---- MODULE Spec2Model ----
(***************************************************************************)
(* Round-robin process scheduler (scheduler/src/schedulers/round_robin.rs) *)
(* as a state machine: the RoundRobin struct is the state, next() and      *)
(* stop() are the actions, increase_timings() is the shared time update.   *)
(***************************************************************************)
EXTENDS Integers, Sequences, FiniteSets, TLC

\* ------------------------------------------------------------------ bounds
MaxTimeslice == 2
MaxPid == 4
MaxSleep == 3
MaxEvent == 2
MaxTotal == 7

Events == 1..MaxEvent
Priorities == {0}

\* --------------------------------------------------------------- the state
VARIABLES
    timeslice,                    \* RoundRobin.timeslice
    minimum_remaining_timeslice,  \* RoundRobin.minimum_remaining_timeslice
    ready,                        \* RoundRobin.ready
    wait,                         \* RoundRobin.wait
    pid_counter,                  \* RoundRobin.pid_counter
    running_process,              \* RoundRobin.running_process
    remaining_running_time,       \* RoundRobin.remaining_running_time
    init,                         \* RoundRobin.init
    sleep_amounts,                \* RoundRobin.sleep_amounts
    sleep,                        \* RoundRobin.sleep
    call,                         \* the call the host made last
    decision,                     \* what the last next() returned
    result,                       \* what the last stop() returned
    crashed                       \* a call panicked: the program is gone

vars == <<timeslice, minimum_remaining_timeslice, ready, wait, pid_counter,
          running_process, remaining_running_time, init, sleep_amounts, sleep,
          call, decision, result, crashed>>

\* Option::None of running_process, and of Waiting { event }
None == [pid |-> 0]
NoEvent == 0

\* ProcessState
Ready == [tag |-> "Ready", event |-> NoEvent]
Running == [tag |-> "Running", event |-> NoEvent]
Waiting(e) == [tag |-> "Waiting", event |-> e]

\* ProcessInfo (the _extra string is always empty)
ProcessInfo(pid, state, timings, priority) ==
    [pid |-> pid, state |-> state, timings |-> timings, priority |-> priority]

\* The scheduler's fields as one value, so that the methods are operators.
Self ==
    [timeslice |-> timeslice,
     minimum_remaining_timeslice |-> minimum_remaining_timeslice,
     ready |-> ready, wait |-> wait, pid_counter |-> pid_counter,
     running_process |-> running_process,
     remaining_running_time |-> remaining_running_time,
     init |-> init, sleep_amounts |-> sleep_amounts, sleep |-> sleep]

\* ------------------------------------------------------------ Vec helpers
\* Vec::remove(i), 1-based here; the caller checks i <= Len(v) (Rust panics)
Remove(v, i) == SubSeq(v, 1, i - 1) \o SubSeq(v, i + 1, Len(v))

\* the indices of v, in order, whose element satisfies P
IndicesWhere(v, P(_)) ==
    SelectSeq([i \in 1..Len(v) |-> i], LAMBDA i : P(v[i]))

IsSleeper(proc) == proc.state.tag = "Waiting" /\ proc.state.event = NoEvent

\* ------------------------------------------------------- increase_timings
\* lines 48-53: the wall-clock total of every record of a queue
AddTotal(v, amount) ==
    IF Len(v) = 0 THEN <<>>
    ELSE [i \in 1..Len(v) |-> [v[i] EXCEPT !.timings[1] = @ + amount]]

\* lines 54-61: every ledger entry decremented, floored at zero
DecreaseSleeps(amts, amount) ==
    IF Len(amts) = 0 THEN <<>>
    ELSE [i \in 1..Len(amts) |-> IF amts[i] < amount THEN 0 ELSE amts[i] - amount]

\* lines 66-70
ZeroAmountIndices(amts) == IndicesWhere(amts, LAMBDA a : a = 0)

\* lines 72-78: computed once, before anything is removed from wait
ProcAmountIndices(w) == IndicesWhere(w, IsSleeper)

\* WakeLoop that stops after the first ledger entry that reached zero
WakeLoopFirstOnly(zero_amount_indices, proc_amount_indices, iter, st) ==
    IF iter > Len(zero_amount_indices) \/ iter > 1 \/ st.panic THEN st
    ELSE LET new_index == zero_amount_indices[iter] - (iter - 1)
         IN  IF new_index <= Len(proc_amount_indices)
             THEN LET index == proc_amount_indices[new_index]
                  IN  IF index > Len(st.wait) \/ new_index > Len(st.sleep_amounts)
                      THEN [st EXCEPT !.panic = TRUE]
                      ELSE [st EXCEPT
                              !.wait = Remove(@, index),
                              !.sleep_amounts = Remove(@, new_index),
                              !.ready = Append(@, [st.wait[index] EXCEPT !.state = Ready])]
             ELSE st

\* lines 82-90: the removal loop; iter is the 1-based position in
\* zero_amount_indices (Rust's iter + 1). st = [ready, wait, sleep_amounts, panic]
RECURSIVE WakeLoop(_, _, _, _)
WakeLoop(zero_amount_indices, proc_amount_indices, iter, st) ==
    IF iter > Len(zero_amount_indices) \/ st.panic THEN st
    ELSE LET new_index == zero_amount_indices[iter] - (iter - 1)
         IN  IF new_index <= Len(proc_amount_indices)
             THEN LET index == proc_amount_indices[new_index]
                  IN  IF index > Len(st.wait) \/ new_index > Len(st.sleep_amounts)
                      THEN [st EXCEPT !.panic = TRUE]
                      ELSE WakeLoop(zero_amount_indices, proc_amount_indices, iter + 1,
                              [st EXCEPT
                                 !.wait = Remove(@, index),
                                 !.sleep_amounts = Remove(@, new_index),
                                 !.ready = Append(@, [st.wait[index] EXCEPT !.state = Ready])])
             ELSE WakeLoop(zero_amount_indices, proc_amount_indices, iter + 1, st)

\* RoundRobin::increase_timings on the three collections it touches
IncreaseTimings(rdy, wt, amts, amount) ==
    LET r1 == AddTotal(rdy, amount)
        w1 == AddTotal(wt, amount)
        a1 == DecreaseSleeps(amts, amount)
    IN  WakeLoop(ZeroAmountIndices(a1), ProcAmountIndices(w1), 1,
                 [ready |-> r1, wait |-> w1, sleep_amounts |-> a1, panic |-> FALSE])

\* increase_timings applied to the scheduler record
WithTimings(s, amount) ==
    LET t == IncreaseTimings(s.ready, s.wait, s.sleep_amounts, amount)
    IN  [s EXCEPT !.ready = t.ready, !.wait = t.wait, !.sleep_amounts = t.sleep_amounts]

TimingsPanic(s, amount) ==
    IncreaseTimings(s.ready, s.wait, s.sleep_amounts, amount).panic

\* ------------------------------------------------------ SchedulingDecision
Run(pid, ts) == [kind |-> "Run", pid |-> pid, amount |-> ts]
SleepFor(amount) == [kind |-> "Sleep", pid |-> 0, amount |-> amount]
Deadlock == [kind |-> "Deadlock", pid |-> 0, amount |-> 0]
Panic == [kind |-> "Panic", pid |-> 0, amount |-> 0]
Done == [kind |-> "Done", pid |-> 0, amount |-> 0]
\* no decision: before the first next(), or the call panicked
NoDecision == [kind |-> "None", pid |-> 0, amount |-> 0]

\* a call's outcome: the scheduler after it, what it returned, whether it panicked
Outcome(s, ret) == [s |-> s, ret |-> ret, panic |-> FALSE]
Abort(s) == [s |-> s, ret |-> NoDecision, panic |-> TRUE]

\* ------------------------------------------------------------------ next()
\* IsDeadlock that looks at the first record of wait only
IsDeadlockFirstOnly(w) == ~IsSleeper(w[1])

\* lines 169-177: only event waiters in wait
IsDeadlock(w) == \A i \in 1..Len(w) : ~IsSleeper(w[i])

\* lines 182-190: index of the first minimal ledger entry (strict <)
MinIndex(amts) ==
    CHOOSE i \in 1..Len(amts) :
        /\ \A j \in 1..Len(amts) : amts[i] <= amts[j]
        /\ \A j \in 1..(i - 1) : amts[j] > amts[i]

\* lines 193-207: the wait index of the min_index-th sleeper, 0 (here 1) if
\* the loop finds none
TargetWaitIndex(w, min_index) ==
    LET procs == ProcAmountIndices(w)
    IN  IF min_index <= Len(procs) THEN procs[min_index] ELSE 1

\* Preempt that hands the runner a fresh timeslice ahead of ready
PreemptKeepsRunner(s) ==
    Outcome([s EXCEPT !.remaining_running_time = s.timeslice],
            Run(s.running_process.pid, s.timeslice))

\* lines 121-134: the runner goes to the tail of ready, the head is dispatched
Preempt(s) ==
    LET q == Append(s.ready, [s.running_process EXCEPT !.state = Ready])
        proc == [q[1] EXCEPT !.state = Running]
    IN  Outcome([s EXCEPT !.ready = Tail(q), !.running_process = proc,
                          !.remaining_running_time = s.timeslice],
                Run(proc.pid, s.timeslice))

\* lines 136-142: the runner keeps the CPU; NonZeroUsize::new(0).unwrap() panics
Reschedule(s) ==
    IF s.remaining_running_time = 0 THEN Abort(s)
    ELSE Outcome(s, Run(s.running_process.pid, s.remaining_running_time))

\* lines 153-160: the head of ready is dispatched
Dispatch(s) ==
    LET proc == [Head(s.ready) EXCEPT !.state = Running]
    IN  Outcome([s EXCEPT !.ready = Tail(@), !.running_process = proc],
                Run(proc.pid, s.timeslice))

\* SleepCpu that does not record the time slept for the next preamble
SleepCpuForgetsDefer(s) ==
    IF Len(s.sleep_amounts) = 0 THEN Abort(s)
    ELSE LET min_index == MinIndex(s.sleep_amounts)
             min_amount == s.sleep_amounts[min_index]
             target_wait_index == TargetWaitIndex(s.wait, min_index)
             proc == s.wait[target_wait_index]
         IN  IF min_amount = 0 THEN Abort(s)
             ELSE Outcome([s EXCEPT !.sleep_amounts = Remove(@, min_index),
                                    !.wait = Remove(@, target_wait_index),
                                    !.ready = Append(@, proc)],
                          SleepFor(min_amount))

\* lines 181-215: the CPU sleeps until the first sleeper is due
SleepCpu(s) ==
    IF Len(s.sleep_amounts) = 0 THEN Abort(s)           \* Vec::remove(0) of an empty Vec
    ELSE LET min_index == MinIndex(s.sleep_amounts)
             min_amount == s.sleep_amounts[min_index]
             target_wait_index == TargetWaitIndex(s.wait, min_index)
             proc == s.wait[target_wait_index]
         IN  IF min_amount = 0 THEN Abort(s)            \* NonZeroUsize::new(0).unwrap()
             ELSE Outcome([s EXCEPT !.sleep_amounts = Remove(@, min_index),
                                    !.wait = Remove(@, target_wait_index),
                                    !.ready = Append(@, proc),
                                    !.sleep = min_amount],
                          SleepFor(min_amount))

\* lines 118-222, on the scheduler as the preamble left it
Decide(s) ==
    IF s.running_process /= None
    THEN IF s.remaining_running_time < s.minimum_remaining_timeslice
         THEN Preempt(s)
         ELSE Reschedule(s)
    ELSE IF Len(s.ready) > 0
         THEN IF s.init THEN Outcome([s EXCEPT !.init = FALSE], Panic)
              ELSE Dispatch(s)
         ELSE IF Len(s.wait) > 0
              THEN IF s.init THEN Outcome([s EXCEPT !.init = FALSE], Panic)
                   ELSE IF IsDeadlock(s.wait) THEN Outcome(s, Deadlock)
                   ELSE SleepCpu(s)
              ELSE Outcome(s, Done)

\* Preamble that forgets to clear the deferred sleep
PreambleKeepsSleep(s) == WithTimings(s, s.sleep)

\* lines 115-116: the deferred sleep is charged, then cleared
Preamble(s) == [WithTimings(s, s.sleep) EXCEPT !.sleep = 0]

\* RoundRobin::next
DoNext(s) ==
    IF TimingsPanic(s, s.sleep) THEN Abort(s) ELSE Decide(Preamble(s))

\* ------------------------------------------------------------ SyscallResult
Success == [kind |-> "Success", pid |-> 0]
PidResult(pid) == [kind |-> "Pid", pid |-> pid]
NoRunningProcess == [kind |-> "NoRunningProcess", pid |-> 0]
NoResult == [kind |-> "None", pid |-> 0]

\* StopReason: Syscall { syscall, remaining } or Expired; arg is Fork's
\* priority, Sleep's amount, or the event of Wait and Signal
Reason(kind, arg, remaining) == [kind |-> kind, arg |-> arg, remaining |-> remaining]

\* ------------------------------------------------------------------ stop()
\* ChargeSyscall that counts the syscall unit as cpu time too
ChargeSyscallAllCpu(proc, used) ==
    [proc EXCEPT !.timings = <<@[1] + used, @[2] + 1, @[3] + used>>]

\* lines 244-246 (and 260-262, 278-280, 311-313): the caller's own timings;
\* used >= 1 whenever remaining < remaining_running_time
ChargeSyscall(proc, used) ==
    [proc EXCEPT !.timings = <<@[1] + used, @[2] + 1, @[3] + (used - 1)>>]

\* ChargeExpired that leaves the caller's cpu time alone
ChargeExpiredNoCpu(proc, used) ==
    [proc EXCEPT !.timings = <<@[1] + used, @[2], @[3]>>]

\* lines 340-341
ChargeExpired(proc, used) ==
    [proc EXCEPT !.timings = <<@[1] + used, @[2], @[3] + used>>]

\* Fork that hands out the PID of the counter without advancing it
ForkReusesPid(s, priority, remaining) ==
    LET used == s.remaining_running_time - remaining
        t == WithTimings(s, used)
        new_pid == t.pid_counter
        new_process == ProcessInfo(new_pid, Ready, <<0, 0, 0>>, priority)
        t1 == [t EXCEPT !.ready = Append(@, new_process)]
    IN  IF t.running_process /= None
        THEN Outcome([t1 EXCEPT !.running_process = ChargeSyscall(@, used),
                                !.remaining_running_time = remaining],
                     PidResult(new_pid))
        ELSE Outcome(t1, PidResult(new_pid))

\* lines 228-253
Fork(s, priority, remaining) ==
    LET used == s.remaining_running_time - remaining
        t == WithTimings(s, used)
        new_pid == t.pid_counter
        new_process == ProcessInfo(new_pid, Ready, <<0, 0, 0>>, priority)
        t1 == [t EXCEPT !.pid_counter = @ + 1, !.ready = Append(@, new_process)]
    IN  IF t.running_process /= None
        THEN Outcome([t1 EXCEPT !.running_process = ChargeSyscall(@, used),
                                !.remaining_running_time = remaining],
                     PidResult(new_pid))
        ELSE Outcome(t1, PidResult(new_pid))

\* lines 254-271
Sleep(s, amount, remaining) ==
    LET used == s.remaining_running_time - remaining
        t == WithTimings(s, used)
        t1 == IF t.running_process /= None
              THEN [t EXCEPT
                      !.wait = Append(@, [ChargeSyscall(t.running_process, used)
                                             EXCEPT !.state = Waiting(NoEvent)]),
                      !.sleep_amounts = Append(@, amount)]
              ELSE t
    IN  Outcome([t1 EXCEPT !.remaining_running_time = s.timeslice,
                           !.running_process = None],
                Success)

\* Wait that leaves remaining_running_time where the caller left it
WaitKeepsRemaining(s, e, remaining) ==
    LET used == s.remaining_running_time - remaining
        t == WithTimings(s, used)
        t1 == IF t.running_process /= None
              THEN [t EXCEPT
                      !.wait = Append(@, [ChargeSyscall(t.running_process, used)
                                             EXCEPT !.state = Waiting(e)]),
                      !.remaining_running_time = remaining]
              ELSE t
    IN  Outcome([t1 EXCEPT !.running_process = None], Success)

\* lines 272-287
Wait(s, e, remaining) ==
    LET used == s.remaining_running_time - remaining
        t == WithTimings(s, used)
        t1 == IF t.running_process /= None
              THEN [t EXCEPT
                      !.wait = Append(@, [ChargeSyscall(t.running_process, used)
                                             EXCEPT !.state = Waiting(e)])]
              ELSE t
    IN  Outcome([t1 EXCEPT !.remaining_running_time = s.timeslice,
                           !.running_process = None],
                Success)

\* ProcsToReady that takes every event waiter, whatever its event
ProcsToReadyAnyEvent(w, e) ==
    IndicesWhere(w, LAMBDA proc : proc.state.tag = "Waiting" /\ proc.state.event /= NoEvent)

\* lines 293-300: the wait indices of the records waiting for e
ProcsToReady(w, e) ==
    IndicesWhere(w, LAMBDA proc : proc.state.tag = "Waiting" /\ proc.state.event = e)

\* lines 302-308: they leave wait one by one, index is the 1-based position
\* in procs_to_ready (Rust's index + 1); st = [ready, wait]
RECURSIVE SignalLoop(_, _, _)
SignalLoop(procs_to_ready, index, st) ==
    IF index > Len(procs_to_ready) THEN st
    ELSE LET modified_index == procs_to_ready[index] - (index - 1)
         IN  SignalLoop(procs_to_ready, index + 1,
                 [ready |-> Append(st.ready, [st.wait[modified_index] EXCEPT !.state = Ready]),
                  wait |-> Remove(st.wait, modified_index)])

\* lines 288-318
Signal(s, e, remaining) ==
    LET used == s.remaining_running_time - remaining
        t == WithTimings(s, used)
        moved == SignalLoop(ProcsToReady(t.wait, e), 1, [ready |-> t.ready, wait |-> t.wait])
        t1 == [t EXCEPT !.ready = moved.ready, !.wait = moved.wait]
    IN  IF t.running_process /= None
        THEN Outcome([t1 EXCEPT !.running_process = ChargeSyscall(@, used),
                                !.remaining_running_time = remaining],
                     Success)
        ELSE Outcome(t1, Success)

\* Exit that never records the exit of PID 1
ExitForgetsInit(s, remaining) ==
    LET used == s.remaining_running_time - remaining
        t == WithTimings(s, used)
    IN  Outcome([t EXCEPT !.remaining_running_time = s.timeslice,
                          !.running_process = None],
                Success)

\* lines 319-332
Exit(s, remaining) ==
    LET used == s.remaining_running_time - remaining
        t == WithTimings(s, used)
        t1 == IF t.running_process /= None /\ t.running_process.pid = 1
              THEN [t EXCEPT !.init = TRUE]
              ELSE t
    IN  Outcome([t1 EXCEPT !.remaining_running_time = s.timeslice,
                           !.running_process = None],
                Success)

\* Expired that puts the caller at the head of ready
ExpiredToFront(s) ==
    LET used == s.remaining_running_time
        t == WithTimings(s, used)
        t1 == IF t.running_process /= None
              THEN [t EXCEPT !.ready = <<[ChargeExpired(t.running_process, used)
                                            EXCEPT !.state = Ready]>> \o @]
              ELSE t
    IN  Outcome([t1 EXCEPT !.running_process = None,
                           !.remaining_running_time = s.timeslice],
                Success)

\* lines 334-349
Expired(s) ==
    LET used == s.remaining_running_time
        t == WithTimings(s, used)
        t1 == IF t.running_process /= None
              THEN [t EXCEPT !.ready = Append(@, [ChargeExpired(t.running_process, used)
                                                    EXCEPT !.state = Ready])]
              ELSE t
    IN  Outcome([t1 EXCEPT !.running_process = None,
                           !.remaining_running_time = s.timeslice],
                Success)

\* the amount stop() hands to increase_timings
Used(s, reason) ==
    IF reason.kind = "Expired" THEN s.remaining_running_time
    ELSE s.remaining_running_time - reason.remaining

\* RoundRobin::stop
DoStop(s, reason) ==
    IF TimingsPanic(s, Used(s, reason)) THEN Abort(s)
    ELSE CASE reason.kind = "Fork" -> Fork(s, reason.arg, reason.remaining)
           [] reason.kind = "Sleep" -> Sleep(s, reason.arg, reason.remaining)
           [] reason.kind = "Wait" -> Wait(s, reason.arg, reason.remaining)
           [] reason.kind = "Signal" -> Signal(s, reason.arg, reason.remaining)
           [] reason.kind = "Exit" -> Exit(s, reason.remaining)
           [] reason.kind = "Expired" -> Expired(s)

\* ---------------------------------------------------------------- the host
NoReason == Reason("None", 0, 0)
NewCall == [op |-> "new", reason |-> NoReason]
NextOp == [op |-> "next", reason |-> NoReason]
StopOp(reason) == [op |-> "stop", reason |-> reason]

\* the Syscall payloads with the remaining the host may report, and Expired
Syscalls(limit) ==
    {Reason("Fork", p, r) : p \in Priorities, r \in 0..(limit - 1)}
    \cup {Reason("Sleep", n, r) : n \in 1..MaxSleep, r \in 0..(limit - 1)}
    \cup {Reason("Wait", e, r) : e \in Events, r \in 0..(limit - 1)}
    \cup {Reason("Signal", e, r) : e \in Events, r \in 0..(limit - 1)}
    \cup {Reason("Exit", 0, r) : r \in 0..(limit - 1)}

StopReasons(limit) == Syscalls(limit) \cup {Reason("Expired", 0, 0)}

\* the records the scheduler holds, as list() walks them
Live(s) ==
    s.ready \o s.wait \o (IF s.running_process /= None THEN <<s.running_process>> ELSE <<>>)

\* the model stops where a clock or the PID counter would leave its bound
WithinBounds(s) ==
    /\ \A i \in 1..Len(Live(s)) : Live(s)[i].timings[1] <= MaxTotal
    /\ s.pid_counter <= MaxPid + 1

\* the last call was a next() that returned Run: a quantum is outstanding
RunOutstanding == call.op = "next" /\ decision.kind = "Run"

\* the variables after a call with outcome out
Install(out) ==
    /\ WithinBounds(out.s)
    /\ crashed' = out.panic
    /\ ready' = out.s.ready
    /\ wait' = out.s.wait
    /\ pid_counter' = out.s.pid_counter
    /\ running_process' = out.s.running_process
    /\ remaining_running_time' = out.s.remaining_running_time
    /\ init' = out.s.init
    /\ sleep_amounts' = out.s.sleep_amounts
    /\ sleep' = out.s.sleep
    /\ UNCHANGED <<timeslice, minimum_remaining_timeslice>>

\* RoundRobin::new, for every configuration within the bound
Init ==
    /\ timeslice \in 1..MaxTimeslice
    /\ minimum_remaining_timeslice \in 0..timeslice
    /\ ready = <<>>
    /\ wait = <<>>
    /\ pid_counter = 1
    /\ running_process = None
    /\ remaining_running_time = timeslice
    /\ init = FALSE
    /\ sleep_amounts = <<>>
    /\ sleep = 0
    /\ call = NewCall
    /\ decision = NoDecision
    /\ result = NoResult
    /\ crashed = FALSE

\* the host asks for a decision (not while a quantum is outstanding)
NextCall ==
    /\ ~crashed
    /\ ~RunOutstanding
    /\ \E out \in {DoNext(Self)} :
          /\ Install(out)
          /\ decision' = out.ret
    /\ call' = NextOp
    /\ UNCHANGED result

\* the host creates the first process: Fork with nothing running
Bootstrap ==
    /\ ~crashed
    /\ call.op = "new"
    /\ \E reason \in {r \in Syscalls(remaining_running_time) : r.kind = "Fork"} :
          \E out \in {DoStop(Self, reason)} :
             /\ Install(out)
             /\ result' = IF out.panic THEN NoResult ELSE out.ret
             /\ call' = StopOp(reason)
    /\ UNCHANGED decision

\* the quantum of the running process ends: a syscall with
\* remaining < the timeslice of the Run decision, or expiry
StopCall ==
    /\ ~crashed
    /\ running_process /= None
    /\ RunOutstanding
    /\ \E reason \in StopReasons(decision.amount) :
          \E out \in {DoStop(Self, reason)} :
             /\ Install(out)
             /\ result' = IF out.panic THEN NoResult ELSE out.ret
             /\ call' = StopOp(reason)
    /\ UNCHANGED decision

\* a host outside the protocol: stop() although nothing is running
StopIdle ==
    /\ ~crashed
    /\ running_process = None
    /\ call.op /= "new"
    /\ \E reason \in StopReasons(remaining_running_time) :
          \E out \in {DoStop(Self, reason)} :
             /\ Install(out)
             /\ result' = IF out.panic THEN NoResult ELSE out.ret
             /\ call' = StopOp(reason)
    /\ UNCHANGED decision

\* the host of the spec: next; stop; next; stop; ...
Next == NextCall \/ Bootstrap \/ StopCall

Spec == Init /\ [][Next]_vars

\* a host that also reports stops while nothing is running
NextIdle == NextCall \/ Bootstrap \/ StopIdle

SpecIdleHost == Init /\ [][NextIdle]_vars

\* =================================================================== claims
\* the PIDs of a queue, in queue order
Pids(q) == IF Len(q) = 0 THEN <<>> ELSE [i \in 1..Len(q) |-> q[i].pid]
PidSet(q) == {q[i].pid : i \in 1..Len(q)}

\* the step is a stop() call / a next() call that returned
StopStep == call'.op = "stop" /\ ~crashed'
NextStep == call'.op = "next" /\ ~crashed'

\* the amount the stop() of this step hands to increase_timings
StepUsed == Used(Self, call'.reason)

\* the ledger has one entry per timed sleeper of wait
Mirrors == Len(sleep_amounts) = Len(ProcAmountIndices(wait))

\* with the ledger mirroring wait: the sleepers whose remaining sleep is <= d
Due(d) ==
    {wait[ProcAmountIndices(wait)[i]].pid :
        i \in {j \in 1..Len(sleep_amounts) : sleep_amounts[j] <= d}}

\* C1: in every reachable state sleep_amounts has exactly one entry per
\* Waiting{event: None} record of wait; the i-th entry can only belong to the
\* i-th such record while the two lengths agree.
C1_LedgerMirrorsSleepers == Mirrors

\* C2: the time update of a stop() that charges d, or of a next() preamble
\* that charges the deferred sleep, moves from wait to ready exactly the
\* timed sleepers whose remaining sleep was <= d: every due sleeper leaves
\* wait, no other sleeper does, and no event waiter does (only Signal of its
\* own event takes an event waiter out of wait).
C2_StopWakes ==
    (StopStep /\ Mirrors) =>
        \A i \in 1..Len(wait) :
            LET proc == wait[i]
            IN  IF IsSleeper(proc)
                THEN IF proc.pid \in Due(StepUsed)
                     THEN proc.pid \in PidSet(ready') /\ proc.pid \notin PidSet(wait')
                     ELSE proc.pid \in PidSet(wait')
                ELSE \/ proc.pid \in PidSet(wait')
                     \/ /\ call'.reason.kind = "Signal"
                        /\ call'.reason.arg = proc.state.event

C2_PreambleWakes ==
    (NextStep /\ Mirrors /\ call.op = "next" /\ decision.kind = "Sleep") =>
        \A i \in 1..Len(wait) :
            LET proc == wait[i]
            IN  IF IsSleeper(proc)
                THEN IF proc.pid \in Due(sleep)
                     THEN proc.pid \notin PidSet(wait')
                     ELSE proc.pid \in PidSet(wait')
                ELSE proc.pid \in PidSet(wait')

C2_WakesExactlyDueSleepers == [][C2_StopWakes /\ C2_PreambleWakes]_vars

\* C3: a stop(Syscall{..}) while nothing is running returns NoRunningProcess
\* and leaves the scheduler as it was, for Fork, Sleep, Wait, Signal and Exit.
C3_IdleSyscallRefused ==
    [][(call'.op = "stop" /\ running_process = None
          /\ call'.reason.kind /= "Expired")
       => (result' = NoRunningProcess /\ Self' = Self)]_vars

\* the records of a queue that wait for event e, in queue order
WaitersOn(w, e) ==
    SelectSeq(w, LAMBDA proc : proc.state.tag = "Waiting" /\ proc.state.event = e)

\* the host acted on Run{pid} and reported Exit: that process is gone
Exited(pid) ==
    /\ call.op = "stop"
    /\ call.reason.kind = "Exit"
    /\ decision.kind = "Run"
    /\ decision.pid = pid

\* C4: the next() after the Exit of PID 1 returns Panic if any record is left
\* in ready or wait (event waiters alone included) and Done if none is left;
\* the next() after a Panic does not return Panic again.
C4_InitExit ==
    [][/\ (Exited(1) /\ call'.op = "next") =>
             /\ ~crashed'
             /\ decision' = IF Len(ready) + Len(wait) > 0 THEN Panic ELSE Done
       /\ (call.op = "next" /\ decision = Panic /\ call'.op = "next") =>
             decision' /= Panic]_vars

C4_PanicBeforeDeadlock ==
    /\ call.op = "next"
    /\ decision = Panic
    /\ ready = <<>>
    /\ wait /= <<>>
    /\ IsDeadlock(wait)

\* C5 as stated: after Deadlock, Panic or Done, a further next() with no
\* stop() in between returns the same terminal value.
C5_TerminalStable ==
    [][(call.op = "next" /\ decision.kind \in {"Deadlock", "Panic", "Done"}
          /\ call'.op = "next")
       => decision' = decision]_vars

\* C5 amended: after Deadlock or Done a further next() with no stop() in
\* between returns the same value and changes nothing; Panic is returned
\* once, the next() after it does not return Panic.
C5_DeadlockDoneStable ==
    [][/\ (call.op = "next" /\ decision.kind \in {"Deadlock", "Done"}
             /\ call'.op = "next")
          => (decision' = decision /\ Self' = Self /\ ~crashed')
       /\ (call.op = "next" /\ decision.kind = "Panic" /\ call'.op = "next")
          => (decision'.kind /= "Panic" /\ ~init')]_vars

C5_DeadlockAfterInitExit ==
    /\ call.op = "next"
    /\ decision = Deadlock
    /\ 1 \notin PidSet(Live(Self))

\* C6: next() returns Deadlock exactly when, after the preamble, nothing is
\* running, ready is empty, wait is not, no record of wait is a timed
\* sleeper, and the init-exited flag is not set.
C6_DeadlockIff ==
    [][(call'.op = "next" /\ ~TimingsPanic(Self, sleep)) =>
          LET s == Preamble(Self)
          IN  (~crashed' /\ decision' = Deadlock) <=>
                 /\ s.running_process = None
                 /\ s.ready = <<>>
                 /\ s.wait /= <<>>
                 /\ \A i \in 1..Len(s.wait) : s.wait[i].state.event /= NoEvent
                 /\ ~s.init]_vars

C6_DeadlockOfTwo ==
    /\ call.op = "next"
    /\ decision = Deadlock
    /\ Len(wait) >= 2
    /\ 1 \in PidSet(wait)

\* C7: next() with a record in the running slot: with remaining_running_time
\* >= minimum_remaining_timeslice it returns Run{same pid, remaining time}
\* and changes no queue; below the minimum the runner goes Ready to the tail
\* of ready and the head of ready is dispatched with the full timeslice.
C7_RescheduleOrPreempt ==
    [][(running_process /= None /\ call.op = "stop" /\ call'.op = "next") =>
          IF remaining_running_time >= minimum_remaining_timeslice
          THEN /\ ~crashed'
               /\ decision' = Run(running_process.pid, remaining_running_time)
               /\ UNCHANGED <<ready, wait, running_process>>
          ELSE LET q == Append(ready, [running_process EXCEPT !.state = Ready])
               IN  /\ ~crashed'
                   /\ ready' = Tail(q)
                   /\ running_process' = [q[1] EXCEPT !.state = Running]
                   /\ decision' = Run(q[1].pid, timeslice)
                   /\ wait' = wait]_vars

\* C8: stop(Signal(e)) with a running record moves every record of wait
\* that waits for e to ready, as Ready and in wait order, leaves the records
\* waiting for another event in wait, keeps the caller Running and returns
\* Success.
C8_SignalWakesWaiters ==
    [][(call'.op = "stop" /\ call'.reason.kind = "Signal"
          /\ running_process /= None) =>
          LET e == call'.reason.arg
              woken == Pids(WaitersOn(wait, e))
          IN  /\ ~crashed'
              /\ result' = Success
              /\ running_process'.pid = running_process.pid
              /\ running_process'.state = Running
              /\ \A i \in 1..Len(ready') :
                    ready'[i].pid \in PidSet(WaitersOn(wait, e)) => ready'[i].state = Ready
              /\ SelectSeq(Pids(ready'), LAMBDA p : p \in PidSet(WaitersOn(wait, e))) = woken
              /\ \A i \in 1..Len(wait) :
                    (wait[i].state.event \notin {NoEvent, e}) => wait[i].pid \in PidSet(wait')]_vars

\* C9 as stated: stop(Signal(e)) with no record of wait waiting for e leaves
\* the membership and order of ready and of wait unchanged, timed sleepers
\* in wait or not.
C9_SignalNoWaiterNoEffect ==
    [][(call'.op = "stop" /\ call'.reason.kind = "Signal"
          /\ WaitersOn(wait, call'.reason.arg) = <<>>)
       => (Pids(ready') = Pids(ready) /\ Pids(wait') = Pids(wait))]_vars

\* C9 amended: the same, provided no entry of sleep_amounts reaches zero in
\* the call (every entry exceeds the time the call charges); a sleeper that
\* becomes due is moved to ready by the time update of the call.
C9_SignalNoWaiterNoDue ==
    [][(call'.op = "stop" /\ call'.reason.kind = "Signal"
          /\ WaitersOn(wait, call'.reason.arg) = <<>>
          /\ \A i \in 1..Len(sleep_amounts) : sleep_amounts[i] > StepUsed)
       => (~crashed' /\ Pids(ready') = Pids(ready) /\ Pids(wait') = Pids(wait))]_vars

C9_SignalledPastOthers ==
    /\ call.op = "stop"
    /\ call.reason.kind = "Signal"
    /\ running_process /= None
    /\ ready = <<>>
    /\ \E i \in 1..Len(wait) : IsSleeper(wait[i])
    /\ \E i \in 1..Len(wait) : wait[i].state.event \notin {NoEvent, call.reason.arg}

\* C10: every live record has total >= cpu + syscalls, and no call lowers
\* the total, syscalls or cpu of a record.
C10_TimingsGrow ==
    [][\A before \in {Live(Self)} : \A after \in {Live(Self')} :
          \A i \in 1..Len(after) :
             /\ after[i].timings[1] >= after[i].timings[3] + after[i].timings[2]
             /\ \A j \in 1..Len(before) :
                   before[j].pid = after[i].pid =>
                      \A k \in 1..3 : before[j].timings[k] <= after[i].timings[k]]_vars

C10_WaitedAndWorked ==
    \E i \in 1..Len(Live(Self)) :
        LET proc == Live(Self)[i]
        IN  /\ proc.timings[3] > 0
            /\ proc.timings[2] > 0
            /\ proc.timings[1] > proc.timings[3] + proc.timings[2]

\* the record with this PID among the live records of s
Find(s, pid) == Live(s)[CHOOSE i \in 1..Len(Live(s)) : Live(s)[i].pid = pid]

\* the records that are live before and after the step, the caller excepted
Bystanders == (PidSet(ready) \cup PidSet(wait)) \cap PidSet(Live(Self'))

\* the step is a stop() of the running record: a syscall, or expiry
SyscallStep ==
    call'.op = "stop" /\ running_process /= None /\ call'.reason.kind /= "Expired"
ExpiredStep ==
    call'.op = "stop" /\ running_process /= None /\ call'.reason.kind = "Expired"

\* the caller of the step is still live after it (Exit destroys it)
CallerStays == running_process.pid \in PidSet(Live(Self'))

\* C11 as stated: with used = remaining_running_time - remaining, a syscall
\* adds used to the caller's cpu, 1 to its syscalls and used + 1 to the total
\* of every live record; expiry adds remaining_running_time to every total
\* and to the caller's cpu.
C11_SyscallChargesUsedPlusOne ==
    [][/\ SyscallStep =>
             /\ ~crashed'
             /\ \A p \in Bystanders :
                   Find(Self', p).timings[1] = Find(Self, p).timings[1] + StepUsed + 1
             /\ CallerStays =>
                   Find(Self', running_process.pid).timings =
                      <<running_process.timings[1] + StepUsed + 1,
                        running_process.timings[2] + 1,
                        running_process.timings[3] + StepUsed>>
       /\ ExpiredStep =>
             /\ ~crashed'
             /\ \A p \in Bystanders :
                   Find(Self', p).timings[1] = Find(Self, p).timings[1] + StepUsed
             /\ Find(Self', running_process.pid).timings =
                   <<running_process.timings[1] + StepUsed,
                     running_process.timings[2],
                     running_process.timings[3] + StepUsed>>]_vars

\* C11 amended: the syscall's own unit is part of used: a syscall adds
\* used - 1 to the caller's cpu, 1 to its syscalls and used to the total of
\* every live record; expiry is as stated.
C11_SyscallChargesUsed ==
    [][/\ SyscallStep =>
             /\ ~crashed'
             /\ \A p \in Bystanders :
                   Find(Self', p).timings[1] = Find(Self, p).timings[1] + StepUsed
             /\ CallerStays =>
                   Find(Self', running_process.pid).timings =
                      <<running_process.timings[1] + StepUsed,
                        running_process.timings[2] + 1,
                        running_process.timings[3] + StepUsed - 1>>
       /\ ExpiredStep =>
             /\ ~crashed'
             /\ \A p \in Bystanders :
                   Find(Self', p).timings[1] = Find(Self, p).timings[1] + StepUsed
             /\ Find(Self', running_process.pid).timings =
                   <<running_process.timings[1] + StepUsed,
                     running_process.timings[2],
                     running_process.timings[3] + StepUsed>>]_vars

C11_ChargedTwoWithBystanders ==
    /\ call.op = "stop"
    /\ call.reason.kind = "Signal"
    /\ decision.amount - call.reason.remaining = 2
    /\ running_process /= None
    /\ ready /= <<>>
    /\ wait /= <<>>

\* C12: every live PID occurs once across running, ready and wait and is
\* positive; a call keeps the set of live PIDs but for the record a Fork adds
\* and the one an Exit removes; Fork returns Pid(k) for the k of the counter,
\* which starts at 1, grows by one per Fork and exceeds every PID handed out.
C12_PidsUniqueAndFresh ==
    [][\A now \in {Pids(Live(Self'))} : \A was \in {PidSet(Live(Self))} :
          /\ \A i, j \in 1..Len(now) : now[i] = now[j] => i = j
          /\ \A i \in 1..Len(now) : now[i] >= 1 /\ now[i] < pid_counter'
          /\ pid_counter' >= pid_counter
          /\ (pid_counter = 1) => (was = {})
          /\ (call'.op = "stop" /\ call'.reason.kind = "Fork" /\ ~crashed') =>
                /\ result' = PidResult(pid_counter)
                /\ pid_counter' = pid_counter + 1
                /\ {now[i] : i \in 1..Len(now)} = was \cup {pid_counter}
          /\ (call'.op = "stop" /\ call'.reason.kind = "Exit" /\ ~crashed') =>
                {now[i] : i \in 1..Len(now)} = was \ {running_process.pid}
          /\ ~(call'.op = "stop" /\ call'.reason.kind \in {"Fork", "Exit"} /\ ~crashed') =>
                {now[i] : i \in 1..Len(now)} = was]_vars

C12_ForkAfterExit ==
    /\ call.op = "stop"
    /\ call.reason.kind = "Fork"
    /\ result = PidResult(MaxPid)
    /\ Len(Live(Self)) <= 2

\* C13: Sleep round trip of the only live record, which consumed only the
\* syscall unit (remaining = remaining_running_time - 1): the stop adds 1 to
\* its total and puts it in wait with ledger n; the next() returns Sleep(n)
\* and moves it to ready, total untouched; the next() after that returns
\* Run{same pid, timeslice} with n more on its total: n + 1 in all.
C13_SleepStop ==
    (SyscallStep /\ call'.reason.kind = "Sleep" /\ ready = <<>> /\ wait = <<>>
        /\ call'.reason.remaining = remaining_running_time - 1) =>
       /\ ~crashed'
       /\ running_process' = None
       /\ ready' = <<>>
       /\ sleep_amounts' = <<call'.reason.arg>>
       /\ wait' = <<[running_process EXCEPT
                       !.state = Waiting(NoEvent),
                       !.timings = <<@[1] + 1, @[2] + 1, @[3]>>]>>

C13_SleepDecision ==
    (call.op = "stop" /\ call.reason.kind = "Sleep" /\ running_process = None
        /\ ready = <<>> /\ Len(wait) = 1 /\ wait[1].pid = decision.pid
        /\ call'.op = "next") =>
       /\ ~crashed'
       /\ decision' = SleepFor(call.reason.arg)
       /\ wait' = <<>>
       /\ Pids(ready') = Pids(wait)
       /\ ready'[1].timings = wait[1].timings

C13_SleepWake ==
    (call.op = "next" /\ decision.kind = "Sleep" /\ Len(ready) = 1 /\ wait = <<>>
        /\ call'.op = "next") =>
       /\ ~crashed'
       /\ decision' = Run(ready[1].pid, timeslice)
       /\ running_process'.pid = ready[1].pid
       /\ running_process'.timings =
             <<ready[1].timings[1] + decision.amount, ready[1].timings[2],
               ready[1].timings[3]>>

C13_SleepRoundTrip == [][C13_SleepStop /\ C13_SleepDecision /\ C13_SleepWake]_vars

C13_SleptTwoAndRuns ==
    /\ call.op = "next"
    /\ decision = Run(1, timeslice)
    /\ pid_counter = 2
    /\ running_process /= None
    /\ running_process.timings = <<3, 1, 0>>

\* C14: remaining_running_time <= timeslice in every state; a next() that
\* dispatches a record taken from ready (nothing was running, or the runner
\* was preempted) leaves remaining_running_time = timeslice and returns Run
\* with exactly timeslice.
C14_RemainingWithinTimeslice ==
    [][/\ remaining_running_time' <= timeslice'
       /\ (NextStep /\ decision'.kind = "Run"
             /\ (running_process = None
                   \/ remaining_running_time < minimum_remaining_timeslice)) =>
             (remaining_running_time' = timeslice /\ decision'.amount = timeslice)]_vars

C14_DispatchedAfterPreemption ==
    /\ call.op = "next"
    /\ decision = Run(2, timeslice)
    /\ timeslice = 2
    /\ Len(ready) = 1
    /\ ready[1].pid = 1
    /\ ready[1].timings = <<1, 1, 0>>

\* the position in the ledger of its first minimum entry
FirstLeast(amts) ==
    CHOOSE i \in 1..Len(amts) :
        /\ \A j \in 1..Len(amts) : amts[i] <= amts[j]
        /\ \A j \in 1..(i - 1) : amts[j] > amts[i]

\* C15: a next() that finds nothing running, ready empty, no pending init
\* exit and at least one timed sleeper in wait returns Sleep(m), m >= 1 the
\* minimum of sleep_amounts, moves the earliest sleeper with that remaining
\* sleep from wait to the tail of ready, removes that sleeper's ledger entry,
\* and always finds a ledger entry for a timed sleeper of wait.
C15_SleepRule ==
    [][(call'.op = "next" /\ running_process = None /\ ready = <<>> /\ ~init
          /\ ProcAmountIndices(wait) /= <<>>) =>
         /\ ~crashed'
         /\ sleep_amounts /= <<>>
         /\ \A m \in {FirstLeast(sleep_amounts)} :
               /\ sleep_amounts[m] >= 1
               /\ decision' = SleepFor(sleep_amounts[m])
               /\ m <= Len(ProcAmountIndices(wait))
               /\ Pids(ready') = <<wait[ProcAmountIndices(wait)[m]].pid>>
               /\ wait' = Remove(wait, ProcAmountIndices(wait)[m])
               /\ sleep_amounts' = Remove(sleep_amounts, m)]_vars

\* q with its first k elements dropped is a prefix of r
KeptInOrder(q, r, k) ==
    /\ Len(r) >= Len(q) - k
    /\ SubSeq(r, 1, Len(q) - k) = SubSeq(q, k + 1, Len(q))

\* the next() of this step dispatches a record out of ready
DispatchStep ==
    /\ NextStep
    /\ decision'.kind = "Run"
    /\ (running_process = None
          \/ remaining_running_time < minimum_remaining_timeslice)

\* C16: FIFO order. A next() that dispatches from a non-empty ready takes
\* its head; every other call leaves the records of ready in their order
\* and only appends behind them; stop(Expired) puts the caller last. So the
\* k records that are in ready when a record expires are each dispatched
\* before it is dispatched again.
C16_FifoOrder ==
    [][/\ (DispatchStep /\ ready /= <<>>) =>
             /\ decision'.pid = ready[1].pid
             /\ running_process'.pid = ready[1].pid
             /\ KeptInOrder(Pids(ready), Pids(ready'), 1)
       /\ (~crashed' /\ ~(DispatchStep /\ ready /= <<>>)) =>
             KeptInOrder(Pids(ready), Pids(ready'), 0)
       /\ (ExpiredStep /\ ~crashed') =>
             /\ running_process' = None
             /\ ready' /= <<>>
             /\ ready'[Len(ready')].pid = running_process.pid]_vars

C16_ExpiredTookTurns ==
    /\ call.op = "next"
    /\ timeslice = 2
    /\ minimum_remaining_timeslice = 0
    /\ decision = Run(1, timeslice)
    /\ running_process /= None
    /\ running_process.timings = <<4, 1, 1>>
    /\ Len(ready) = 1
    /\ ready[1].pid = 2
    /\ ready[1].timings = <<3, 0, 2>>

\* the records that leave wait in the step
LeftWait == PidSet(wait) \ PidSet(wait')

\* the ledger entries that the deferred sleep brings to zero
DueEntries == {j \in 1..Len(sleep_amounts) : sleep_amounts[j] <= sleep}

\* C17 as stated: one next() takes at most one record out of wait.
C17_AtMostOneWoken == [][NextStep => Cardinality(LeftWait) <= 1]_vars

\* C17: the sleep rule of next() moves exactly one record from wait to
\* ready in a call, but the preamble of the next() after a Sleep decision
\* moves one record for every ledger entry the deferred sleep brings to
\* zero, several when sleepers finish at the same instant.
C17_WokenPerCall ==
    [][NextStep =>
         /\ Cardinality(LeftWait) =
               Cardinality(DueEntries) + (IF decision'.kind = "Sleep" THEN 1 ELSE 0)
         /\ LeftWait \subseteq PidSet(Live(Self'))
         /\ decision'.kind = "Sleep" => (DueEntries = {} /\ Len(ready') = Len(ready) + 1)]_vars

C17_ThreeWokenTogether ==
    /\ call.op = "next"
    /\ decision = Run(2, timeslice)
    /\ pid_counter = 4
    /\ wait = <<>>
    /\ Pids(ready) = <<3, 1>>
    /\ ready[1].timings = <<4, 1, 0>>
    /\ ready[2].timings = <<6, 3, 0>>
    /\ running_process /= None
    /\ running_process.timings = <<5, 1, 0>>

\* C18: for every configuration, minimum_remaining_timeslice = 0 included,
\* and every host that reports remaining below the timeslice of the last
\* Run: every Run that next() returns carries a timeslice in 1..timeslice,
\* and next() never aborts for having to build a quantum of length zero.
C18_QuantumPositive ==
    [][call'.op = "next" =>
         /\ decision'.kind = "Run" => decision'.amount \in 1..timeslice
         /\ running_process /= None => (~crashed' /\ decision'.kind = "Run")]_vars

\* C19: after every call the state of each record agrees with the
\* container that holds it: Ready in ready, Waiting in wait, Running in the
\* running slot.
C19_StateMatchesContainer ==
    /\ \A i \in 1..Len(ready) : ready[i].state = Ready
    /\ \A i \in 1..Len(wait) : wait[i].state.tag = "Waiting"
    /\ running_process /= None => running_process.state = Running

\* the position of the record with this PID in q (0 when it is not there)
Position(q, pid) ==
    IF pid \in PidSet(q) THEN CHOOSE i \in 1..Len(q) : q[i].pid = pid ELSE 0

\* C20: starvation freedom with minimum_remaining_timeslice >= 1, in the
\* form of a measure that every call respects. While a record waits in
\* ready no call aborts and no call moves it back; a next() that finds the
\* running slot empty returns Run for the head of ready (or the one Panic
\* of an init exit); a stop() that leaves the caller running lowers
\* remaining_running_time, and a next() re-grants exactly that much, so
\* after at most timeslice stops the runner is below the minimum; a next()
\* that finds it there dispatches the head of ready and moves every other
\* record of ready one place forward. A record at place i of ready is
\* therefore returned in a Run after at most i dispatches.
C20_NobodyOvertakes ==
    \A i \in 1..Len(ready) :
        \/ /\ Position(ready', ready[i].pid) \in 1..i
           /\ (DispatchStep /\ ~init) => Position(ready', ready[i].pid) = i - 1
        \/ /\ i = 1
           /\ call'.op = "next"
           /\ decision' = Run(ready[i].pid, timeslice)
           /\ running_process'.pid = ready[i].pid

C20_RunnerRunsDown ==
    /\ (call'.op = "stop" /\ running_process /= None /\ running_process' /= None) =>
          /\ running_process'.pid = running_process.pid
          /\ remaining_running_time' < remaining_running_time
    /\ (call'.op = "next" /\ running_process /= None) =>
          IF remaining_running_time < minimum_remaining_timeslice
          THEN decision'.kind = "Run" /\ remaining_running_time' = timeslice
          ELSE decision' = Run(running_process.pid, remaining_running_time)
    /\ (call'.op = "next" /\ running_process = None) =>
          IF init THEN decision' = Panic /\ ~init'
          ELSE decision' = Run(ready[1].pid, timeslice)

C20_ReadyIsDispatched ==
    [][(minimum_remaining_timeslice >= 1 /\ ready /= <<>>) =>
         (~crashed' /\ C20_NobodyOvertakes /\ C20_RunnerRunsDown)]_vars

C20_ThirdInLineRuns ==
    /\ call.op = "next"
    /\ minimum_remaining_timeslice >= 1
    /\ decision = Run(3, timeslice)
    /\ Pids(ready) = <<1, 2>>
    /\ running_process /= None
    /\ running_process.timings[1] >= 2
    /\ running_process.timings[2] = 0
    /\ running_process.timings[3] = 0
    /\ ready[2].timings[3] >= 1

====
